---------------------------- MODULE Spec2Model ----------------------------
(***************************************************************************)
(* Model of PGF_invert.py: numerical inversion of a probability generating *)
(* function (Davies 1973) on top of mpmath's quad, together with the       *)
(* closed-form binomial / negative-binomial oracle functions.              *)
(*                                                                         *)
(* What is modelled                                                        *)
(*   - the process-wide working precision mp.prec (mp.dps = 15, line 18),  *)
(*   - invert_pgf (lines 21-32) as the steps a caller goes through:        *)
(*     x = k + 1, the integrand closure, the interval [-pi, pi], the call  *)
(*     of quad and "return 0.5 - my_integral",                             *)
(*   - quad as the source invokes it on line 31 (mpmath's tanh-sinh rule): *)
(*     it raises the working precision by 20 bits for the duration of the  *)
(*     call and restores it in a finally block, sums the integrand over    *)
(*     the nodes of degree 1, 2, ... up to guess_degree(prec), stops early *)
(*     when the error estimate is below epsilon, and otherwise returns the *)
(*     last estimate; it catches no exception.  The degree-1 rule holds    *)
(*     the centre node (b+a)/2 of the interval,                            *)
(*   - the parameter checks of binomial_PMF, neg_bin_PMF, binomial_PGF and *)
(*     neg_bin_PGF (lines 35-82).                                          *)
(*                                                                         *)
(* What is abstracted                                                      *)
(*   - the real and complex values themselves: a quadrature estimate is    *)
(*     "a number", whether the error estimate is below epsilon is a        *)
(*     nondeterministic choice, and a computed oracle value is "a number". *)
(*     The one value kept exact is pi rounded to a given number of bits,   *)
(*     because it decides whether the centre node is exactly t = 0.        *)
(***************************************************************************)
EXTENDS Integers, Sequences, FiniteSets, TLC

VARIABLES scenario, prec, pc, call, oracle

vars == <<scenario, prec, pc, call, oracle>>

---------------------------------------------------------------------------
(* Bounds of the model *)

\* largest n of the oracle inputs (k ranges over -1 .. MaxN + 1)
MaxN == 5
\* largest index k passed to invert_pgf (k ranges over -1 .. MaxK)
MaxK == 0
\* cap on the working precision in bits; quad is entered only below it
MaxPrec == 170
\* saturation of the degree counter (never reached: guess_degree <= 8 here)
DegreeCap == 9

(* Program constants *)

\* mp.dps = 15
DefaultDps == 15
\* quad: ctx.prec += 20 while integrating; nodes are built at prec + 20
ExtraPrec == 20

Callers == {1, 2}

\* the precisions (decimal digits) a caller may ask for
DpsChoices == {DefaultDps, 2 * DefaultDps}

---------------------------------------------------------------------------
(* mpmath's precision bookkeeping *)

\* mp.dps = n sets mp.prec = round((n + 1) * 3.3219280948873626)
dps_to_prec(n) == ((n + 1) * 332193 + 50000) \div 100000

\* mp.dps read back: max(1, round(prec / 3.3219280948873626) - 1)
prec_to_dps(p) ==
    LET d == ((p * 200000 + 332193) \div 664386) - 1 IN IF d < 1 THEN 1 ELSE d

\* floor(log2(p / 30)) for p >= 30, else 0
RECURSIVE Log2Over30(_)
Log2Over30(p) == IF p < 60 THEN 0 ELSE 1 + Log2Over30(p \div 2)

\* TanhSinh.guess_degree: int(4 + max(0, log(prec/30, 2))) + 2
guess_degree(p) == 4 + Log2Over30(p) + 2

\* binary digits of pi = 11.00100100001111110110101010001000100001011010001...
PiBits ==
    << 1,1,0,0,1,0,0,1,0,0,0,0,1,1,1,1,1,1,0,1,1,0,1,0,1,0,1,0,0,0,1,0,0,0,1,0,0,0,0,1,
       0,1,1,0,1,0,0,0,1,1,0,0,0,0,1,0,0,0,1,1,0,1,0,0,1,1,0,0,0,1,0,0,1,1,0,0,0,1,1,0,
       0,1,1,0,0,0,1,0,1,0,0,0,1,0,1,1,1,0,0,0,0,0,0,0,1,1,0,1,1,1,0,0,0,0,0,1,1,1,0,0,
       1,1,0,1,0,0,0,1,0,0,1,0,1,0,0,1,0,0,0,0,0,0,1,0,0,1,0,0,1,1,1,0,0,0,0,0,1,0,0,0,
       1,0,0,0,1,0,1,0,0,1,1,0,0,1,1,1,1,1,0,0,1,1,0,0,0,1,1,1,0,1,0,0,0,0,0,0,0,0,1,0 >>

\* s + 1 on a big-endian bit string
RECURSIVE BitInc(_)
BitInc(s) ==
    IF s = <<>> THEN <<1>>
    ELSE IF s[Len(s)] = 0 THEN SubSeq(s, 1, Len(s) - 1) \o <<1>>
    ELSE BitInc(SubSeq(s, 1, Len(s) - 1)) \o <<0>>

\* the mantissa of pi rounded to nearest at p bits (pi is irrational: a next
\* bit of 1 means more than half an ulp is cut off)
PiRound(p) ==
    IF PiBits[p + 1] = 1 THEN BitInc(SubSeq(PiBits, 1, p)) ELSE SubSeq(PiBits, 1, p)

\* a mantissa of p bits written with q >= p bits
PadTo(s, q) == s \o [i \in 1 .. (q - Len(s)) |-> 0]

\* mpf(pi at p bits) = mpf(pi at q bits) as real numbers
PiEqual(p, q) ==
    IF p <= q THEN PadTo(PiRound(p), q) = PiRound(q)
    ELSE PadTo(PiRound(q), p) = PiRound(p)

---------------------------------------------------------------------------
(* The distribution functions, lines 35-82 (p is given in tenths) *)

\* line 36: if p < 0 or p > 1 or n < 0 or k < 0 or k > n: raise ValueError
binomial_PMF_raises_no_upper(p10, n, k) == p10 < 0 \/ p10 > 10 \/ n < 0 \/ k < 0

binomial_PMF_raises(p10, n, k) ==
    p10 < 0 \/ p10 > 10 \/ n < 0 \/ k < 0 \/ k > n

\* lines 35-41
binomial_PMF(p10, n, k) ==
    IF binomial_PMF_raises(p10, n, k)
    THEN [kind |-> "ValueError", computed |-> FALSE]
    ELSE [kind |-> "value", computed |-> TRUE]

\* line 61: if r < 0 or k < 0 or m < 0: raise ValueError
neg_bin_PMF_raises(r, m, k) == r < 0 \/ k < 0 \/ m < 0

\* lines 60-66; p = m / (r + m) divides by zero when r = m = 0
neg_bin_PMF(r, m, k) ==
    IF neg_bin_PMF_raises(r, m, k)
    THEN [kind |-> "ValueError", computed |-> FALSE]
    ELSE IF r + m = 0
    THEN [kind |-> "ZeroDivisionError", computed |-> TRUE]
    ELSE [kind |-> "value", computed |-> TRUE]

\* lines 51-57, at a point z of the unit circle
binomial_PGF(p10, n) ==
    IF p10 < 0 \/ p10 > 10 \/ n < 0 THEN "ValueError" ELSE "value"

\* lines 76-82, at a point z of the unit circle with p * z # 1
neg_bin_PGF(r, m) ==
    IF r < 0 \/ m < 0 THEN "ValueError"
    ELSE IF r + m = 0 THEN "ZeroDivisionError"
    ELSE "value"

\* the closures handed to invert_pgf (lines 97 and 109, and two with
\* parameters the PGF functions reject)
PGFs ==
    { [dist |-> "binomial", a |-> 5, b |-> 20],
      [dist |-> "binomial", a |-> -1, b |-> 20],
      [dist |-> "neg_bin", a |-> 40, b |-> 10],
      [dist |-> "neg_bin", a |-> 0, b |-> 0] }

\* line 97: the closure of the binomial demo
DemoBinomial == [dist |-> "binomial", a |-> 5, b |-> 20]

\* G(z): what evaluating the closure ends in
G_eval(g) ==
    IF g.dist = "binomial" THEN binomial_PGF(g.a, g.b) ELSE neg_bin_PGF(g.a, g.b)

---------------------------------------------------------------------------
(* invert_pgf and quad *)

NoCall ==
    [want |-> 0, G |-> [dist |-> "none", a |-> 0, b |-> 0], k |-> 0, x |-> 0,
     entry_prec |-> 0, a_prec |-> 0, orig |-> 0, m |-> 0, degree |-> 0,
     t0 |-> "none", err |-> "none", converged |-> FALSE, result |-> "none"]

InCall == {"called", "quad", "summed", "unwind"}

Finished == {"returned", "raised"}

active(c) ==
    \/ scenario = "concurrent"
    \/ scenario = "sequential" /\ c = 1

\* what the callers invert.  Run alone, caller 1 is the driver of main: it
\* sweeps k over both demo distributions (and over parameters the PGF
\* functions reject) at either precision.  Run side by side, caller 1
\* inverts the binomial demo PGF at the default precision and caller 2 the
\* same PGF at twice as many digits.
CallerPGFs(c) == IF scenario = "sequential" THEN PGFs ELSE {DemoBinomial}

CallerK(c) == IF scenario = "sequential" THEN -1 .. MaxK ELSE {0}

CallerDps(c) ==
    IF scenario = "sequential" THEN DpsChoices
    ELSE IF c = 1 THEN {DefaultDps} ELSE {2 * DefaultDps}

Init ==
    /\ scenario \in {"oracle", "sequential", "concurrent"}
    /\ prec = dps_to_prec(DefaultDps)
    /\ pc = [c \in Callers |-> "idle"]
    /\ call = [c \in Callers |-> NoCall]
    /\ oracle = [fn |-> "none"]

\* the caller selects its working precision: mp.dps = d (as on line 18)
set_dps(c, d) ==
    /\ active(c)
    /\ pc[c] = "idle"
    /\ prec' = dps_to_prec(d)
    /\ call' = [call EXCEPT ![c].want = d]
    /\ pc' = [pc EXCEPT ![c] = "configured"]
    /\ UNCHANGED <<scenario, oracle>>

\* lines 29-31 up to the call of quad: x = k + 1, the integrand closure, and
\* the list [-pi, pi], whose first entry -pi is an mpf rounded at the
\* precision of this moment while the second stays the lazy constant pi.
\* The driver of main calls without touching mp.dps again (lines 97, 109):
\* the precision such a call is configured with is the one in force.
invert_pgf_enter(c, g, kk) ==
    /\ \/ pc[c] = "configured"
       \/ pc[c] = "idle" /\ scenario = "sequential" /\ c = 1
    /\ call' = [call EXCEPT ![c].G = g, ![c].k = kk, ![c].x = kk + 1,
                            ![c].want = IF pc[c] = "idle" THEN prec_to_dps(prec)
                                        ELSE call[c].want,
                            ![c].entry_prec = prec, ![c].a_prec = prec]
    /\ pc' = [pc EXCEPT ![c] = "called"]
    /\ UNCHANGED <<scenario, prec, oracle>>

\* quad: orig = ctx.prec; m = guess_degree(prec); ctx.prec += 20
quad_enter(c) ==
    /\ pc[c] = "called"
    /\ prec + ExtraPrec <= MaxPrec
    /\ call' = [call EXCEPT ![c].orig = prec, ![c].m = guess_degree(prec),
                            ![c].degree = 0]
    /\ prec' = prec + ExtraPrec
    /\ pc' = [pc EXCEPT ![c] = "quad"]
    /\ UNCHANGED <<scenario, oracle>>

\* transform_nodes converts the endpoint b = pi at the precision of the
\* node computation, orig + 20
interval_b_prec_same(o) == o

interval_b_prec(o) == o + ExtraPrec

\* the centre node D = (b + a) / 2 of the degree-1 rule, a = -pi rounded at
\* ap bits and b = pi rounded at bp bits
centre_node(ap, bp) == IF PiEqual(ap, bp) THEN "zero" ELSE "nonzero"

\* line 30 at the node t: G(exp(1j*t)) is evaluated first, then the quotient
\* by 2*pi*(1 - exp(-1j*t)), which is a division by zero at t = 0
my_integrand(g, t) ==
    IF G_eval(g) # "value" THEN G_eval(g)
    ELSE IF t = "zero" THEN "ZeroDivisionError"
    ELSE "value"

\* for degree in xrange(1, max_degree + 1): the loop has run its last degree
loop_exhausted_never(d, m) == FALSE

loop_exhausted(d, m) == d >= m

SatDegree(d) == IF d < DegreeCap THEN d ELSE DegreeCap

\* one pass of the summation loop: the nodes of the next degree are summed
\* under the current working precision; from degree 2 on the error estimate
\* is compared with epsilon
quad_degree(c) ==
    /\ pc[c] = "quad"
    /\ LET r == call[c]
           d == r.degree + 1
           t == IF d = 1 THEN centre_node(r.a_prec, interval_b_prec(r.orig))
                ELSE "nonzero"
           v == my_integrand(r.G, t)
           seen == IF d = 1 THEN t ELSE r.t0
       IN IF v # "value"
          THEN /\ call' = [call EXCEPT ![c].degree = SatDegree(d),
                                       ![c].t0 = seen, ![c].err = v]
               /\ pc' = [pc EXCEPT ![c] = "unwind"]
          ELSE \E below_epsilon \in BOOLEAN :
                 IF d > 1 /\ below_epsilon
                 THEN /\ call' = [call EXCEPT ![c].degree = SatDegree(d), ![c].t0 = seen,
                                              ![c].converged = TRUE]
                      /\ pc' = [pc EXCEPT ![c] = "summed"]
                 ELSE IF loop_exhausted(d, r.m)
                 THEN /\ call' = [call EXCEPT ![c].degree = SatDegree(d), ![c].t0 = seen]
                      /\ pc' = [pc EXCEPT ![c] = "summed"]
                 ELSE /\ call' = [call EXCEPT ![c].degree = SatDegree(d), ![c].t0 = seen]
                      /\ pc' = pc
    /\ UNCHANGED <<scenario, prec, oracle>>

\* quad: finally: ctx.prec = orig
quad_restore_missing(c) == prec' = prec

quad_restore(c) == prec' = call[c].orig

\* lines 31-32: my_integral = quad(...); return 0.5 - my_integral
invert_pgf_result_swallow(r) == "value"

invert_pgf_result(r) == IF r.err # "none" THEN r.err ELSE "value"

\* quad leaves through its finally block, with its value or with the
\* exception passing through, and invert_pgf ends on line 32
invert_pgf_return(c) ==
    /\ pc[c] \in {"summed", "unwind"}
    /\ quad_restore(c)
    /\ call' = [call EXCEPT ![c].result = invert_pgf_result(call[c])]
    /\ pc' = [pc EXCEPT ![c] = IF invert_pgf_result(call[c]) = "value"
                                THEN "returned" ELSE "raised"]
    /\ UNCHANGED <<scenario, oracle>>

\* the caller takes the result (lines 97, 109) and goes on
caller_next(c) ==
    /\ pc[c] \in Finished
    /\ call' = [call EXCEPT ![c] = NoCall]
    /\ pc' = [pc EXCEPT ![c] = "idle"]
    /\ UNCHANGED <<scenario, prec, oracle>>

---------------------------------------------------------------------------
(* Calls of the oracle functions *)

PTenths == {-1, 0, 5, 10, 11}

NegBinParams == {<<-1, 5>>, <<5, -1>>, <<0, 0>>, <<2, 3>>, <<40, 10>>}

call_binomial_PMF(p10, n, k) ==
    /\ scenario = "oracle"
    /\ oracle' = [fn |-> "binomial_PMF", p |-> p10, n |-> n, k |-> k,
                  res |-> binomial_PMF(p10, n, k)]
    /\ UNCHANGED <<scenario, prec, pc, call>>

call_neg_bin_PMF(r, m, k) ==
    /\ scenario = "oracle"
    /\ oracle' = [fn |-> "neg_bin_PMF", r |-> r, m |-> m, k |-> k,
                  res |-> neg_bin_PMF(r, m, k)]
    /\ UNCHANGED <<scenario, prec, pc, call>>

---------------------------------------------------------------------------

Next ==
    \/ \E c \in Callers : \E d \in CallerDps(c) : set_dps(c, d)
    \/ \E c \in Callers : \E g \in CallerPGFs(c), kk \in CallerK(c) :
          invert_pgf_enter(c, g, kk)
    \/ \E c \in Callers : quad_enter(c)
    \/ \E c \in Callers : quad_degree(c)
    \/ \E c \in Callers : invert_pgf_return(c)
    \/ \E c \in Callers : caller_next(c)
    \/ \E p10 \in PTenths, n \in -1 .. MaxN, k \in -1 .. MaxN + 1 :
          call_binomial_PMF(p10, n, k)
    \/ \E rm \in NegBinParams, k \in -1 .. MaxN + 1 : call_neg_bin_PMF(rm[1], rm[2], k)

Spec == Init /\ [][Next]_vars

\* a call that has started keeps executing: the code is synchronous
running(c) ==
    quad_enter(c) \/ quad_degree(c) \/ invert_pgf_return(c)

FairSpec == Spec /\ \A c \in Callers : WF_vars(running(c))

---------------------------------------------------------------------------
(* The oracle's domain errors *)

\* C2: binomial_PMF raises ValueError, before computing anything, whenever
\* p < 0 or p > 1 or n < 0 or k < 0 or k > n, and neg_bin_PMF whenever r < 0 or
\* m < 0 or k < 0; no such input gives a number or another kind of error.
C2_DomainErrors ==
    /\ oracle.fn = "binomial_PMF"
         /\ (oracle.p < 0 \/ oracle.p > 10 \/ oracle.n < 0 \/ oracle.k < 0
               \/ oracle.k > oracle.n)
       => oracle.res.kind = "ValueError" /\ ~oracle.res.computed
    /\ oracle.fn = "neg_bin_PMF" /\ (oracle.r < 0 \/ oracle.m < 0 \/ oracle.k < 0)
       => oracle.res.kind = "ValueError" /\ ~oracle.res.computed

\* binomial_PMF(p = 0.5, n = 5, k = 6) has raised ValueError
C2_Witness ==
    /\ oracle.fn = "binomial_PMF"
    /\ oracle.p = 5 /\ oracle.n = 5 /\ oracle.k = 6
    /\ oracle.res.kind = "ValueError"

---------------------------------------------------------------------------
(* Errors and results of invert_pgf *)

\* C3: whenever the quadrature of a call ended in an error, invert_pgf ended
\* in that same error and returned no value.
C3_ErrorPropagates ==
    \A c \in Callers :
        pc[c] \in Finished /\ call[c].err # "none"
        => pc[c] = "raised" /\ call[c].result = call[c].err

\* a call whose PGF raised ValueError inside the quadrature has ended
C3_Witness ==
    \E c \in Callers :
        pc[c] = "raised" /\ call[c].err = "ValueError" /\ call[c].degree = 1

\* C4: no call of invert_pgf returns a value computed from a quadrature that
\* did not reach the configured precision (it fails with an error instead).
C4_NoUnderConverged ==
    \A c \in Callers : pc[c] = "returned" => call[c].converged

\* C5: each call computes under the precision configured for it, whatever the
\* other call does: while a call integrates, the working precision in force is
\* the one it asked for (with quad's guard bits).
C5_OwnPrecision ==
    \A c \in Callers :
        pc[c] = "quad" => prec = dps_to_prec(call[c].want) + ExtraPrec

\* C8: every call that has started ends, returning or raising, and never
\* runs more refinement steps than the fixed maximum degree.
C8_Terminates ==
    \A c \in Callers :
        /\ [](call[c].degree <= call[c].m /\ call[c].m <= guess_degree(MaxPrec))
        /\ [](pc[c] \in InCall => <>(pc[c] \in Finished))

\* a call has run every degree up to the maximum without converging, and ended
C8_Witness ==
    \E c \in Callers :
        /\ pc[c] = "returned"
        /\ ~call[c].converged
        /\ call[c].degree = guess_degree(dps_to_prec(DefaultDps))

C10_NeverAtZero ==
    \A c \in Callers :
        scenario = "sequential"
        => /\ call[c].t0 # "zero"
           /\ ~(call[c].err = "ZeroDivisionError" /\ G_eval(call[c].G) = "value")

\* a call has summed the degree-1 rule, centre node included, and returned
C10_Witness ==
    \E c \in Callers :
        /\ scenario = "sequential"
        /\ pc[c] = "returned"
        /\ call[c].t0 = "nonzero"
        /\ call[c].entry_prec = dps_to_prec(DefaultDps)

=============================================================================
